---- MODULE Spec2Model ----
(***************************************************************************)
(* Model of doctr's OCRPredictor (doctr/models/predictor/pytorch.py).      *)
(*                                                                         *)
(* One predictor instance is constructed and then called any number of     *)
(* times.  A call of forward is a straight-line sequence of stages; each   *)
(* stage is one action.  The detection and recognition predictors, the     *)
(* crop extraction (_prepare_crops), the re-grouping of the recognition    *)
(* results (_process_predictions) and the DocumentBuilder are not part of  *)
(* pytorch.py; they are modelled from their documented contracts.          *)
(*                                                                         *)
(* A page is [kind, shape]: kind is "ndarray" or "tensor", shape the       *)
(* tuple page.shape (page.ndim is its length).  A detected region is       *)
(* [page, idx, size]: idx is its position in detection order on its page,  *)
(* size is 0 when the region denormalizes to an empty crop.  Geometry      *)
(* beyond that (coordinates, angles, the clustering of words into lines    *)
(* and blocks) is not modelled.                                            *)
(***************************************************************************)
EXTENDS Integers, Sequences, FiniteSets

\* ------------------------------------------------------------------ bounds
MaxPages == 2
MaxBoxes == 3

\* ------------------------------------------------------------------ inputs
NoDocument == [pages |-> <<>>, straight |-> FALSE, built |-> FALSE]

\* page.shape of the pages a caller passes: a 2-D image without channel axis,
\* an H x W x C image, a C x H x W image and a batched 4-D image.
PageValues ==
    { [kind |-> "ndarray", shape |-> <<4, 5>>],
      [kind |-> "ndarray", shape |-> <<4, 5, 3>>],
      [kind |-> "tensor",  shape |-> <<3, 4, 5>>],
      [kind |-> "ndarray", shape |-> <<1, 4, 5, 3>>] }

RECURSIVE SeqsUpTo(_, _)
SeqsUpTo(S, n) ==
    IF n = 0 THEN { <<>> }
    ELSE LET shorter == SeqsUpTo(S, n - 1)
         IN  shorter \cup { Append(s, x) : s \in { t \in shorter : Len(t) = n - 1 }, x \in S }

PageBatches == SeqsUpTo(PageValues, MaxPages)

CtorArgs == {"absent", "true", "false"}

\* **kwargs of a call, as a set of <<key, value>> pairs
KwargsValues == { {}, { <<"assume_straight_pages", TRUE>> }, { <<"assume_straight_pages", FALSE>> } }

DetErrors == {"DetRuntimeError", "DetOutOfMemory"}
RecoErrors == {"RecoRuntimeError", "RecoOutOfMemory"}
ShapeErrorValue == "ValueError: incorrect input shape: all pages are expected to be multi-channel 2D images."
AssemblyErrorValue == "AssemblyError"
NoError == "none"
NoExtractArgs == [channels_last |-> TRUE, assume_straight_pages |-> TRUE]
NoAssembleArgs == [allow_rotated_boxes |-> FALSE]

Stages == <<"Validate", "Detect", "ExtractCrops", "Recognize", "Assemble", "BuildDocument", "Return">>

\* ------------------------------------------------------------------ state
VARIABLES
    pc,                        \* "new", "ready" (no call in progress), the stage about to run, or "done"
    ctor,                      \* the arguments __init__ was called with
    assume_straight_pages,     \* self.assume_straight_pages
    export_as_straight_boxes,  \* self.doc_builder.export_as_straight_boxes
    pages, kwargs,             \* the arguments of the call in progress (or of the last call)
    loc_preds, channels_last, crops, word_preds, boxes, text_preds, out,  \* locals of forward
    outcome, error,            \* how the last call ended: "none", "Document" or "raised"
    stages,                    \* history: the stages the call has run
    det_calls, reco_calls,     \* history: the inputs of each predictor invocation of the call
    det_returned,              \* history: what the detection predictor returned
    thrown,                    \* history: the exception a predictor raised
    extract_args, assemble_args, \* history: the arguments given to _prepare_crops / _process_predictions
    build_args                  \* history: the page shapes given to the document builder

vars == <<pc, ctor, assume_straight_pages, export_as_straight_boxes, pages, kwargs,
          loc_preds, channels_last, crops, word_preds, boxes, text_preds, out,
          outcome, error, stages, det_calls, reco_calls, det_returned, thrown,
          extract_args, assemble_args, build_args>>

config == <<ctor, assume_straight_pages, export_as_straight_boxes>>
callargs == <<pages, kwargs>>

\* ------------------------------------------------------------------ helpers
RECURSIVE SumLens(_)
SumLens(ss) == IF ss = <<>> THEN 0 ELSE Len(Head(ss)) + SumLens(Tail(ss))

Min2(a, b) == IF a < b THEN a ELSE b

\* a keyword argument's value when given, else its default
ArgOr(arg, default) == IF arg = "absent" THEN default ELSE arg = "true"

\* OCRPredictor.__init__
InitAssumeStraightPages(arg) == ArgOr(arg, TRUE)
InitExportAsStraightBoxes(arg) == ArgOr(arg, FALSE)

\* mutant: only the first page's dimensions are checked
DimensionCheckFirstPageOnly(ps) == Len(ps) > 0 /\ Len(ps[1].shape) # 3

\* any(page.ndim != 3 for page in pages)
DimensionCheckFails(ps) == \E i \in 1..Len(ps) : Len(ps[i].shape) # 3

\* mutant: "and" for "or", an empty batch is taken as channel-first
ChannelsLastNonEmptyOnly(ps) == Len(ps) > 0 /\ ps[1].kind = "ndarray"

\* len(pages) == 0 or isinstance(pages[0], np.ndarray)
ChannelsLast(ps) == IF Len(ps) = 0 THEN TRUE ELSE ps[1].kind = "ndarray"

\* mutant: the axis pair is chosen from each page's own representation
PageShapeByOwnKind(page, cl) ==
    LET n == Len(page.shape)
    IN  IF page.kind = "ndarray" THEN SubSeq(page.shape, 1, IF n < 2 THEN n ELSE 2)
        ELSE SubSeq(page.shape, IF n > 2 THEN n - 1 ELSE 1, n)

\* page.shape[:2] if channels_last else page.shape[-2:]
PageShape(page, cl) ==
    LET n == Len(page.shape)
    IN  IF cl THEN SubSeq(page.shape, 1, Min2(2, n))
        ELSE SubSeq(page.shape, IF n > 2 THEN n - 1 ELSE 1, n)

\* mutant: the comprehension skips the first page
PageShapesSkipFirst(ps, cl) ==
    [i \in 1..(Len(ps) - 1) |->
        IF cl THEN SubSeq(ps[i + 1].shape, 1, 2)
        ELSE SubSeq(ps[i + 1].shape, Len(ps[i + 1].shape) - 1, Len(ps[i + 1].shape))]

PageShapes(ps, cl) == [i \in 1..Len(ps) |-> PageShape(ps[i], cl)]

\* mutant: the pages' crop lists are concatenated last page first
RECURSIVE FlattenCropsLastPageFirst(_)
FlattenCropsLastPageFirst(cs) ==
    IF cs = <<>> THEN <<>> ELSE FlattenCropsLastPageFirst(Tail(cs)) \o Head(cs)

\* [crop for page_crops in crops for crop in page_crops]
RECURSIVE FlattenCrops(_)
FlattenCrops(cs) == IF cs = <<>> THEN <<>> ELSE Head(cs) \o FlattenCrops(Tail(cs))

\* mutant: the recognizer is invoked page by page
RecoInvocationsPerPage(cs, kw) == [p \in 1..Len(cs) |-> [crops |-> cs[p], kwargs |-> kw]]

\* self.reco_predictor(<flattened crops>, **kwargs): the invocations it makes
RecoInvocations(cs, kw) == << [crops |-> FlattenCrops(cs), kwargs |-> kw] >>

\* mutant: the boxes _prepare_crops returns are dropped, the detector's kept
LocPredsNotReassigned(r, lp) == lp

\* crops, loc_preds = ...: loc_preds is rebound to the returned boxes
ReassignedLocPreds(r, lp) == r.loc_preds

\* mutant: a keyword option of the call overrides the geometry mode
ExtractModeFromKwargs(kw) ==
    IF \E pair \in kw : pair[1] = "assume_straight_pages"
    THEN \E pair \in kw : pair[1] = "assume_straight_pages" /\ pair[2]
    ELSE assume_straight_pages

\* assume_straight_pages=self.assume_straight_pages
ExtractMode(kw) == assume_straight_pages

\* allow_rotated_boxes=not self.doc_builder.export_as_straight_boxes
AllowRotatedBoxes(kw) == ~export_as_straight_boxes

\* mutant: the predictor's exception is caught and another one raised
PropagateWrapped(e) == "OCRPredictorError"

\* an exception raised inside forward is neither caught nor wrapped
Propagate(e) == e

\* --- collaborators, from their contracts ---------------------------------

\* DetectionPredictor: one localization prediction per page, in page order.
\* sizes[p] is the sequence of crop extents of the regions found on page p.
DetOutput(sizes) ==
    [p \in 1..Len(sizes) |-> [k \in 1..Len(sizes[p]) |-> [page |-> p, idx |-> k, size |-> sizes[p][k]]]]

RegionSizes == SeqsUpTo({0, 1}, MaxBoxes)

DetSizes(n) == { s \in [1..n -> RegionSizes] : SumLens(s) <= MaxBoxes }

\* extract_crops / extract_rcrops on one region
ExtractCrop(box, cl, straight) ==
    [page |-> box.page, idx |-> box.idx, size |-> box.size,
     layout |-> IF cl THEN "channels_last" ELSE "channels_first",
     mode |-> IF straight THEN "straight" ELSE "rotated"]

IsKeptBox(box) == box.size > 0
IsKeptCrop(crop) == crop.size > 0

\* _OCRPredictor._prepare_crops: crops per page, degenerate regions dropped
\* from the crops and from the boxes together
PrepareCrops(ps, lp, cl, straight) ==
    LET n == Min2(Len(ps), Len(lp))
        all == [p \in 1..n |-> [k \in 1..Len(lp[p]) |-> ExtractCrop(lp[p][k], cl, straight)]]
    IN  [crops |-> [p \in 1..n |-> SelectSeq(all[p], IsKeptCrop)],
         loc_preds |-> [p \in 1..n |-> SelectSeq(lp[p], IsKeptBox)]]

\* RecognitionPredictor: one (text, confidence) per crop, in flat order; the
\* text read from a crop is identified by the region the crop was cut from
Recognized(crop) == [page |-> crop.page, idx |-> crop.idx]
RecoContract(flat) == [i \in 1..Len(flat) |-> Recognized(flat[i])]
SpuriousWord == [page |-> 0, idx |-> 0]

\* what a recognizer may hand back: the contract's result, one result too few
\* or one too many
RecoReturns(flat) ==
    { RecoContract(flat), Append(RecoContract(flat), SpuriousWord) }
    \cup (IF Len(flat) > 0 THEN { SubSeq(RecoContract(flat), 1, Len(flat) - 1) } ELSE {})

\* number of regions on the pages before page p
Offset(lp, p) == SumLens(SubSeq(lp, 1, p - 1))

\* mutant: only too few results are an error, surplus results are cut off
AssemblyFailsOnShortOnly(lp, wp) == Len(wp) < SumLens(lp)

\* _OCRPredictor._process_predictions (PredictionAssembler): fails unless the
\* flat length is the sum of the per-page counts, else slices contiguous groups
AssemblyFails(lp, wp) == Len(wp) # SumLens(lp)

ProcessPredictions(lp, wp, allow_rotated) ==
    [boxes |-> lp,
     text_preds |-> [p \in 1..Len(lp) |-> SubSeq(wp, Offset(lp, p) + 1, Offset(lp, p) + Len(lp[p]))]]

\* DocumentBuilder.__call__: one Page per (boxes, text_preds, page_shape)
\* triple, each box paired with its text, dimensions stored verbatim
BuildPage(page_boxes, page_words, shape) ==
    [dimensions |-> shape,
     words |-> [k \in 1..Min2(Len(page_boxes), Len(page_words)) |->
                   [geometry |-> page_boxes[k], value |-> page_words[k]]]]

DocBuilder(bs, tp, shapes) ==
    [pages |-> [p \in 1..Min2(Len(shapes), Min2(Len(bs), Len(tp))) |-> BuildPage(bs[p], tp[p], shapes[p])],
     straight |-> export_as_straight_boxes,
     built |-> TRUE]

\* ------------------------------------------------------------------ actions
Init ==
    /\ pc = "new"
    /\ ctor = [assume_straight_pages |-> "absent", export_as_straight_boxes |-> "absent"]
    /\ assume_straight_pages = TRUE
    /\ export_as_straight_boxes = FALSE
    /\ pages = <<>> /\ kwargs = {}
    /\ loc_preds = <<>> /\ channels_last = TRUE /\ crops = <<>> /\ word_preds = <<>>
    /\ boxes = <<>> /\ text_preds = <<>> /\ out = NoDocument
    /\ outcome = "none" /\ error = NoError
    /\ stages = <<>> /\ det_calls = <<>> /\ reco_calls = <<>>
    /\ det_returned = <<>> /\ thrown = NoError
    /\ extract_args = NoExtractArgs /\ assemble_args = NoAssembleArgs /\ build_args = <<>>

locals == <<loc_preds, channels_last, crops, word_preds, boxes, text_preds, out>>
history == <<det_calls, reco_calls, det_returned, thrown, extract_args, assemble_args, build_args>>

\* OCRPredictor(det_predictor, reco_predictor, assume_straight_pages=..., export_as_straight_boxes=...)
Construct ==
    /\ pc = "new"
    /\ \E a \in CtorArgs, e \in CtorArgs :
        /\ ctor' = [assume_straight_pages |-> a, export_as_straight_boxes |-> e]
        /\ assume_straight_pages' = InitAssumeStraightPages(a)
        /\ export_as_straight_boxes' = InitExportAsStraightBoxes(e)
    /\ pc' = "ready"
    /\ UNCHANGED <<callargs, locals, outcome, error, stages, history>>

\* predictor(pages, **kwargs): a fresh activation of forward
Call ==
    /\ pc = "ready"
    /\ \E ps \in PageBatches, kw \in KwargsValues :
        /\ pages' = ps
        /\ kwargs' = kw
    /\ pc' = "Validate"
    /\ UNCHANGED <<config, locals, outcome, error, stages, history>>

\* forward keeps nothing between calls: its arguments and locals live in the
\* activation, which is gone once the caller has the Document or the exception
Release ==
    /\ pc = "done"
    /\ pc' = "ready"
    /\ pages' = <<>> /\ kwargs' = {}
    /\ loc_preds' = <<>> /\ channels_last' = TRUE /\ crops' = <<>> /\ word_preds' = <<>>
    /\ boxes' = <<>> /\ text_preds' = <<>> /\ out' = NoDocument
    /\ outcome' = "none" /\ error' = NoError
    /\ stages' = <<>> /\ det_calls' = <<>> /\ reco_calls' = <<>>
    /\ det_returned' = <<>> /\ thrown' = NoError
    /\ extract_args' = NoExtractArgs /\ assemble_args' = NoAssembleArgs /\ build_args' = <<>>
    /\ UNCHANGED config

Raise(e) ==
    /\ pc' = "done"
    /\ outcome' = "raised"
    /\ error' = e

\* the dimension check
Validate ==
    /\ pc = "Validate"
    /\ stages' = Append(stages, "Validate")
    /\ \/ /\ DimensionCheckFails(pages)
          /\ Raise(ShapeErrorValue)
       \/ /\ ~DimensionCheckFails(pages)
          /\ pc' = "Detect"
          /\ UNCHANGED <<outcome, error>>
    /\ UNCHANGED <<config, callargs, locals, history>>

\* loc_preds = self.det_predictor(pages, **kwargs)
Detect ==
    /\ pc = "Detect"
    /\ stages' = Append(stages, "Detect")
    /\ det_calls' = Append(det_calls, [pages |-> pages, kwargs |-> kwargs])
    /\ \/ \E e \in DetErrors :
            /\ thrown' = e
            /\ Raise(Propagate(e))
            /\ UNCHANGED <<loc_preds, det_returned>>
       \/ \E s \in DetSizes(Len(pages)) :
            /\ loc_preds' = DetOutput(s)
            /\ det_returned' = DetOutput(s)
            /\ pc' = "ExtractCrops"
            /\ UNCHANGED <<outcome, error, thrown>>
    /\ UNCHANGED <<config, callargs, channels_last, crops, word_preds, boxes, text_preds, out,
                   reco_calls, extract_args, assemble_args, build_args>>

\* channels_last = ...; crops, loc_preds = self._prepare_crops(...)
ExtractCrops ==
    /\ pc = "ExtractCrops"
    /\ stages' = Append(stages, "ExtractCrops")
    /\ channels_last' = ChannelsLast(pages)
    /\ extract_args' = [channels_last |-> ChannelsLast(pages), assume_straight_pages |-> ExtractMode(kwargs)]
    /\ LET r == PrepareCrops(pages, loc_preds, ChannelsLast(pages), ExtractMode(kwargs))
       IN  /\ crops' = r.crops
           /\ loc_preds' = ReassignedLocPreds(r, loc_preds)
    /\ pc' = "Recognize"
    /\ UNCHANGED <<config, callargs, word_preds, boxes, text_preds, out, outcome, error,
                   det_calls, reco_calls, det_returned, thrown, assemble_args, build_args>>

\* word_preds = self.reco_predictor([crop for page_crops in crops for crop in page_crops], **kwargs)
Recognize ==
    /\ pc = "Recognize"
    /\ stages' = Append(stages, "Recognize")
    /\ reco_calls' = reco_calls \o RecoInvocations(crops, kwargs)
    /\ \/ \E e \in RecoErrors :
            /\ thrown' = e
            /\ Raise(Propagate(e))
            /\ UNCHANGED word_preds
       \/ \E w \in RecoReturns(FlattenCrops(crops)) :
            /\ word_preds' = w
            /\ pc' = "Assemble"
            /\ UNCHANGED <<outcome, error, thrown>>
    /\ UNCHANGED <<config, callargs, loc_preds, channels_last, crops, boxes, text_preds, out,
                   det_calls, det_returned, extract_args, assemble_args, build_args>>

\* boxes, text_preds = self._process_predictions(loc_preds, word_preds, allow_rotated_boxes=...)
Assemble ==
    /\ pc = "Assemble"
    /\ stages' = Append(stages, "Assemble")
    /\ assemble_args' = [allow_rotated_boxes |-> AllowRotatedBoxes(kwargs)]
    /\ \/ /\ AssemblyFails(loc_preds, word_preds)
          /\ Raise(AssemblyErrorValue)
          /\ UNCHANGED <<boxes, text_preds>>
       \/ /\ ~AssemblyFails(loc_preds, word_preds)
          /\ LET r == ProcessPredictions(loc_preds, word_preds, AllowRotatedBoxes(kwargs))
             IN  /\ boxes' = r.boxes
                 /\ text_preds' = r.text_preds
          /\ pc' = "BuildDocument"
          /\ UNCHANGED <<outcome, error>>
    /\ UNCHANGED <<config, callargs, loc_preds, channels_last, crops, word_preds, out,
                   det_calls, reco_calls, det_returned, thrown, extract_args, build_args>>

\* out = self.doc_builder(boxes, text_preds, [page shapes])
BuildDocument ==
    /\ pc = "BuildDocument"
    /\ stages' = Append(stages, "BuildDocument")
    /\ build_args' = PageShapes(pages, channels_last)
    /\ out' = DocBuilder(boxes, text_preds, PageShapes(pages, channels_last))
    /\ pc' = "Return"
    /\ UNCHANGED <<config, callargs, loc_preds, channels_last, crops, word_preds, boxes, text_preds,
                   outcome, error, det_calls, reco_calls, det_returned, thrown, extract_args, assemble_args>>

\* return out
Return ==
    /\ pc = "Return"
    /\ stages' = Append(stages, "Return")
    /\ outcome' = "Document"
    /\ pc' = "done"
    /\ UNCHANGED <<config, callargs, locals, error, history>>

Next ==
    \/ Construct
    \/ Call
    \/ Validate
    \/ Detect
    \/ ExtractCrops
    \/ Recognize
    \/ Assemble
    \/ BuildDocument
    \/ Return
    \/ Release

Spec == Init /\ [][Next]_vars

\* ------------------------------------------------------------------ claims
Ran(stage) == \E i \in 1..Len(stages) : stages[i] = stage
InCall == pc \notin {"new", "ready"}
Returned == pc = "done" /\ outcome = "Document"
Failed == pc = "done" /\ outcome = "raised"
HasNon3DPage == \E i \in 1..Len(pages) : Len(pages[i].shape) # 3

\* number of elements in the groups before group p
RECURSIVE CountBefore(_, _)
CountBefore(groups, p) == IF p <= 1 THEN 0 ELSE CountBefore(groups, p - 1) + Len(groups[p - 1])
CountAll(groups) == CountBefore(groups, Len(groups) + 1)

\* C1: a batch holding a page that is not 3-dimensional, at any position,
\* ends the call with the ValueError of the dimension check, with neither
\* predictor invoked and no Document built.
C1_ShapeErrorBeforeAnyModel ==
    (InCall /\ pc # "Validate" /\ HasNon3DPage) =>
        /\ Failed
        /\ error = ShapeErrorValue
        /\ det_calls = <<>> /\ reco_calls = <<>>
        /\ stages = <<"Validate">>
        /\ ~out.built

C1_Witness ==
    /\ Failed /\ error = ShapeErrorValue
    /\ Len(pages) = 2
    /\ Len(pages[1].shape) = 3 /\ Len(pages[2].shape) = 2

\* C2: the Document a call returns has one page per input page, in input
\* order, in straight and in rotated mode: page i carries a height/width pair
\* of input page i and only words cut from page i.
C2_OnePagePerInputPage ==
    Returned =>
        /\ out.built
        /\ Len(build_args) = Len(pages)
        /\ Len(out.pages) = Len(pages)
        /\ \A i \in 1..Len(out.pages) :
            /\ out.pages[i].dimensions \in
                   { <<pages[i].shape[1], pages[i].shape[2]>>, <<pages[i].shape[2], pages[i].shape[3]>> }
            /\ \A k \in 1..Len(out.pages[i].words) : out.pages[i].words[k].geometry.page = i

C2_Witness ==
    /\ Returned /\ ~assume_straight_pages
    /\ Len(pages) = 2 /\ Len(out.pages) = 2
    /\ pages[1] # pages[2]
    /\ Len(out.pages[2].words) > 0

\* C3: a call runs the stages in the order Validate, Detect, ExtractCrops,
\* Recognize, Assemble, BuildDocument, Return and never goes back; a call
\* that returns has run all of them, the detector once on the whole batch and
\* the recognizer once on the flattened crops, after detection and extraction.
C3_StagesInOrderPredictorsOnce ==
    /\ Len(stages) <= Len(Stages)
    /\ stages = SubSeq(Stages, 1, Len(stages))
    /\ Len(det_calls) <= 1 /\ Len(reco_calls) <= 1
    /\ det_calls # <<>> => Ran("Detect")
    /\ reco_calls # <<>> => Ran("ExtractCrops") /\ Ran("Recognize") /\ Len(det_calls) = 1
    /\ Returned =>
        /\ stages = Stages
        /\ Len(det_calls) = 1 /\ det_calls[1].pages = pages
        /\ Len(reco_calls) = 1
        /\ Len(reco_calls[1].crops) = CountAll(crops)

C3_Witness ==
    /\ Returned /\ stages = Stages
    /\ Len(pages) = 2 /\ Len(crops[1]) > 0 /\ Len(crops[2]) > 0
    /\ Len(det_calls) = 1 /\ Len(reco_calls) = 1

\* C4: the flat batch given to the recognizer is the per-page crop lists
\* concatenated in page order, each in its own order, so its length is the
\* sum of the per-page counts; after assembly the pair of the k-th box of
\* page p is the recognition result at flat index (crops before p) + k.
C4_FlattenAndRegroupByOffset ==
    /\ Ran("Recognize") =>
        /\ Len(reco_calls) = 1
        /\ Len(reco_calls[1].crops) = CountAll(crops)
        /\ \A p \in 1..Len(crops) : \A k \in 1..Len(crops[p]) :
               reco_calls[1].crops[CountBefore(crops, p) + k] = crops[p][k]
    /\ (Ran("Assemble") /\ ~Failed) =>
        /\ Len(text_preds) = Len(crops)
        /\ \A p \in 1..Len(crops) :
            /\ Len(text_preds[p]) = Len(crops[p])
            /\ \A k \in 1..Len(crops[p]) :
                   text_preds[p][k] = word_preds[CountBefore(crops, p) + k]

C4_Witness ==
    /\ Returned
    /\ Len(crops) = 2 /\ Len(crops[1]) = 1 /\ Len(crops[2]) = 2
    /\ text_preds[2][2] = word_preds[3]
    /\ out.pages[2].words[2].value = word_preds[3]

\* C5: a recognition result whose length differs from the sum of the
\* per-page crop counts, shorter or longer, ends the call with the
\* AssemblyError: nothing is regrouped, truncated or padded, no Document.
C5_LengthMismatchIsAssemblyError ==
    (Ran("Assemble") /\ Len(word_preds) # CountAll(crops)) =>
        /\ Failed
        /\ error = AssemblyErrorValue
        /\ text_preds = <<>> /\ boxes = <<>>
        /\ ~out.built
        /\ ~Ran("BuildDocument")

C5_Witness ==
    /\ Failed /\ error = AssemblyErrorValue
    /\ Len(crops) = 2 /\ CountAll(crops) = 2
    /\ Len(word_preds) = 3

\* C6: after crop extraction the boxes and the crops of every page are the
\* detected regions with a non-degenerate crop, in detection order, dropped
\* together; a call that assembles has as many text/confidence pairs as kept
\* boxes on every page, the k-th pair read from the k-th box's crop.
C6_BoxesCropsTextsAligned ==
    /\ Ran("ExtractCrops") =>
        /\ Len(loc_preds) = Len(det_returned) /\ Len(crops) = Len(det_returned)
        /\ \A p \in 1..Len(det_returned) :
            /\ Len(loc_preds[p]) = Cardinality({ k \in 1..Len(det_returned[p]) : det_returned[p][k].size > 0 })
            /\ Len(crops[p]) = Len(loc_preds[p])
            /\ \A k \in 1..Len(loc_preds[p]) :
                /\ loc_preds[p][k].size > 0
                /\ loc_preds[p][k] = det_returned[p][loc_preds[p][k].idx]
                /\ crops[p][k].page = p /\ crops[p][k].idx = loc_preds[p][k].idx
                /\ k > 1 => loc_preds[p][k - 1].idx < loc_preds[p][k].idx
    /\ (Ran("Assemble") /\ ~Failed) =>
        /\ boxes = loc_preds
        /\ \A p \in 1..Len(boxes) :
            /\ Len(text_preds[p]) = Len(boxes[p])
            /\ \A k \in 1..Len(boxes[p]) :
                   text_preds[p][k] = [page |-> p, idx |-> boxes[p][k].idx]

C6_Witness ==
    /\ Returned
    /\ Len(det_returned) = 2
    /\ Len(det_returned[1]) = 1 /\ det_returned[1][1].size = 0
    /\ Len(det_returned[2]) = 2 /\ det_returned[2][1].size = 0 /\ det_returned[2][2].size = 1
    /\ Len(out.pages[1].words) = 0 /\ Len(out.pages[2].words) = 1
    /\ out.pages[2].words[1].value.idx = 2

\* C7: the channel ordering is decided once from the batch, channel-last iff
\* the batch is empty or its first page is an ndarray; crop extraction gets
\* that decision and every page shape of the Document is the first two axes
\* of its page when channel-last, the last two otherwise, whatever the
\* representation of the later pages.
C7_ChannelOrderFromFirstPage ==
    LET first_is_array == pages = <<>> \/ pages[1].kind = "ndarray"
    IN  /\ Ran("ExtractCrops") =>
            /\ channels_last = first_is_array
            /\ extract_args.channels_last = first_is_array
            /\ \A p \in 1..Len(crops) : \A k \in 1..Len(crops[p]) :
                   crops[p][k].layout = IF first_is_array THEN "channels_last" ELSE "channels_first"
        /\ Ran("BuildDocument") =>
            /\ Len(build_args) = Len(pages)
            /\ \A i \in 1..Len(build_args) :
                /\ build_args[i] =
                       IF first_is_array THEN <<pages[i].shape[1], pages[i].shape[2]>>
                       ELSE <<pages[i].shape[2], pages[i].shape[3]>>
                /\ out.pages[i].dimensions = build_args[i]

C7_Witness ==
    /\ Returned
    /\ Len(pages) = 2 /\ pages[1].kind = "tensor" /\ pages[2].kind = "ndarray"
    /\ ~channels_last
    /\ build_args[2] = <<5, 3>> /\ out.pages[2].dimensions = <<5, 3>>
    /\ Len(crops[2]) > 0

\* C8: an exception raised by the detection or the recognition predictor
\* is the exception the call ends with, the failing stage is the last one
\* run, the failed predictor has been invoked once, and no Document is built.
C8_PredictorFailurePropagates ==
    thrown # NoError =>
        /\ Failed
        /\ error = thrown
        /\ ~out.built
        /\ thrown \in DetErrors =>
            /\ stages = <<"Validate", "Detect">>
            /\ Len(det_calls) = 1 /\ reco_calls = <<>>
        /\ thrown \in RecoErrors =>
            /\ stages = <<"Validate", "Detect", "ExtractCrops", "Recognize">>
            /\ Len(det_calls) = 1 /\ Len(reco_calls) = 1
            /\ text_preds = <<>>

C8_Witness ==
    /\ Failed /\ thrown \in RecoErrors /\ error = thrown
    /\ Len(pages) = 2 /\ CountAll(crops) > 0

\* C9: a call with an empty batch passes the dimension check, is channel-last,
\* gives the recognizer an empty flat batch, and, the predictors returning
\* (the recognizer no results for no crops), assembles zero groups from zero
\* results and returns a Document with zero pages.
C9_EmptyBatchGivesEmptyDocument ==
    (InCall /\ pages = <<>>) =>
        /\ error # ShapeErrorValue
        /\ Ran("Validate") => pc # "done" \/ Ran("Detect")
        /\ Ran("ExtractCrops") => channels_last /\ extract_args.channels_last /\ crops = <<>>
        /\ Ran("Recognize") => Len(reco_calls) = 1 /\ reco_calls[1].crops = <<>>
        /\ (Ran("Assemble") /\ word_preds = <<>>) =>
            /\ loc_preds = <<>> /\ boxes = <<>> /\ text_preds = <<>>
            /\ error = NoError
        /\ (pc = "done" /\ thrown = NoError /\ word_preds = <<>>) =>
            /\ Returned
            /\ out.built /\ out.pages = <<>>

C9_Witness ==
    /\ Returned /\ pages = <<>>
    /\ stages = Stages
    /\ out.built /\ out.pages = <<>>

\* C10: on one instance, over any calls, self.assume_straight_pages and
\* doc_builder.export_as_straight_boxes are the constructor's arguments
\* (default true and false); crop extraction, post-processing and the
\* Document use them, and the call's keyword options, whatever they hold,
\* reach the two predictors and nothing else.
C10_GeometryModeFixedAtConstruction ==
    pc # "new" =>
        /\ assume_straight_pages =
               (IF ctor.assume_straight_pages = "absent" THEN TRUE ELSE ctor.assume_straight_pages = "true")
        /\ export_as_straight_boxes =
               (IF ctor.export_as_straight_boxes = "absent" THEN FALSE ELSE ctor.export_as_straight_boxes = "true")
        /\ Ran("ExtractCrops") =>
            /\ extract_args.assume_straight_pages = assume_straight_pages
            /\ \A p \in 1..Len(crops) : \A k \in 1..Len(crops[p]) :
                   crops[p][k].mode = IF assume_straight_pages THEN "straight" ELSE "rotated"
        /\ Ran("Assemble") => assemble_args.allow_rotated_boxes = ~export_as_straight_boxes
        /\ Ran("BuildDocument") => out.straight = export_as_straight_boxes
        /\ \A i \in 1..Len(det_calls) : det_calls[i].kwargs = kwargs
        /\ \A i \in 1..Len(reco_calls) : reco_calls[i].kwargs = kwargs

C10_Witness ==
    /\ Returned
    /\ ctor.assume_straight_pages = "absent" /\ assume_straight_pages
    /\ kwargs = { <<"assume_straight_pages", FALSE>> }
    /\ CountAll(crops) > 0
    /\ crops[1][1].mode = "straight"

====
